---------------------------- MODULE Spec2Model ----------------------------
(***************************************************************************)
(* Model of the GitHub repository creator: GitHubClient                    *)
(* (src/github_client.py) and RepositoryCreator (src/repo_creator.py).     *)
(*                                                                         *)
(* The program is single-threaded and synchronous.  One public operation   *)
(* runs at a time; pc is its position, and every statement that talks to   *)
(* the remote host, the local file system or the version-control tool is   *)
(* one step whose outcome (accepted, rejected by the host, transport       *)
(* fault) is chosen by the environment.  Python dicts are functions whose  *)
(* DOMAIN is the set of keys; strings built by f-strings are sequences of  *)
(* their parts.                                                            *)
(***************************************************************************)
EXTENDS Integers, Sequences, FiniteSets, TLC

VARIABLES
    host,    \* remote host: repository name -> [refs, prot]
    fs,      \* local file system: directory path -> [files, git, remotes, commits]
    pc,      \* position of the running operation, "idle" between operations
    op,      \* the public operation running (or the last one run)
    args,    \* its arguments
    lv,      \* the local variables of the frames of the running operation
    calls,   \* the external calls made by the operation, in order
    ret,     \* what the last operation returned, or the exception it raised
    nops,    \* number of public operations started so far
    prev     \* summary of the operation before the last one

vars == <<host, fs, pc, op, args, lv, calls, ret, nops, prev>>

---------------------------------------------------------------------------
(* Bounds of the model *)

\* number of public operations in one behaviour
MaxOps == 2

---------------------------------------------------------------------------
(* Values *)

RepoNames == {"demo"}
LocalPath == "/tmp/demo"
MissingPath == "/nonexistent"
Paths == {LocalPath, MissingPath}
Branches == {"main", "safe"}
BranchTypes == {"main", "safe", "other"}
Username == "user"

\* Python's None and an unset local
None == [none |-> TRUE]
IsNone(v) == DOMAIN v = {"none"}
Unset == [unset |-> TRUE]

\* dict helpers: d.get(k, default), d[k] = v
Get(d, k, default) == IF k \in DOMAIN d THEN d[k] ELSE default
Put(d, k, v) == [x \in (DOMAIN d) \cup {k} |-> IF x = k THEN v ELSE d[x]]
EmptyDict == [x \in {} |-> None]

\* a sequence of string parts contains the phrase (a sequence of words)
Contains(s, phrase) ==
    \E i \in 1..Len(s) :
        /\ i + Len(phrase) - 1 <= Len(s)
        /\ SubSeq(s, i, i + Len(phrase) - 1) = phrase

\* outcomes the environment can give an external call
Outcomes == {"ok", "rejected", "transport"}

\* exceptions: GithubException carries the host's status, the others a text
GithubException(status, text) ==
    [type |-> "GithubException", msg |-> <<status, text>>]
GitCommandError(text) == [type |-> "GitCommandError", msg |-> <<text>>]
TransportError == [type |-> "ConnectionError", msg |-> <<"connection", "failed">>]
OSError == [type |-> "OSError", msg |-> <<"cannot", "write">>]
\* str(e)
StrOf(e) == e.msg

RaisedRec(e) == [raised |-> e.type]
Failure(err) == [success |-> FALSE, error |-> err]
Returned(r) == "success" \in DOMAIN r
Raised(r) == "raised" \in DOMAIN r

\* URLs the host derives for a repository
CloneUrl(name) == <<"https://github.com/", Username, "/", name, ".git">>
SshUrl(name) == <<"git@github.com:", Username, "/", name, ".git">>
HtmlUrl(name) == <<"https://github.com/", Username, "/", name>>
RepoOfUrl(url) == url[4]

---------------------------------------------------------------------------
(* Config (src/config.py) *)

DEFAULT_DESCRIPTION == <<"Created with GitHub Repo Creator">>
SAFE_BRANCH_PATTERN == "*safe*"

---------------------------------------------------------------------------
(* ProtectionPolicy: GitHubClient.get_branch_protection_rules *)

MainRules ==
    [enforce_admins |-> FALSE,
     required_pull_request_reviews |->
        [required_approving_review_count |-> 1,
         dismiss_stale_reviews |-> TRUE,
         require_code_owner_reviews |-> TRUE],
     restrictions |-> None,
     allow_force_pushes |-> FALSE,
     allow_deletions |-> FALSE]

SafeRules ==
    [enforce_admins |-> FALSE,
     required_pull_request_reviews |->
        [required_approving_review_count |-> 1,
         dismiss_stale_reviews |-> TRUE,
         require_code_owner_reviews |-> TRUE],
     restrictions |-> None,
     allow_force_pushes |-> FALSE,
     allow_deletions |-> FALSE]

\* mutant: the "safe" branch of the lookup returns a stricter rule set
get_branch_protection_rules_StricterSafe(branch_type) ==
    IF branch_type = "main" THEN MainRules
    ELSE IF branch_type = "safe"
         THEN [SafeRules EXCEPT !.enforce_admins = TRUE,
                  !.required_pull_request_reviews.required_approving_review_count = 2]
    ELSE EmptyDict

get_branch_protection_rules(branch_type) ==
    IF branch_type = "main" THEN MainRules
    ELSE IF branch_type = "safe" THEN SafeRules
    ELSE EmptyDict

\* the payload both protection requests build from a rule set
ProtectionPayload(rules) ==
    [required_status_checks |-> None,
     enforce_admins |-> Get(rules, "enforce_admins", FALSE),
     required_pull_request_reviews |->
        Get(rules, "required_pull_request_reviews", None),
     restrictions |-> Get(rules, "restrictions", None),
     allow_force_pushes |-> Get(rules, "allow_force_pushes", FALSE),
     allow_deletions |-> Get(rules, "allow_deletions", FALSE),
     required_conversation_resolution |-> TRUE,
     require_linear_history |-> TRUE]

---------------------------------------------------------------------------
(* The remote host and the local file system *)

\* a commit: its tree (path -> content), its parents, message and origin
Commit(tree, parents, message, by) ==
    [tree |-> tree, parents |-> parents, message |-> message, by |-> by]

\* the commit the host creates for auto_init = True
HostInitCommit(name) ==
    Commit([p \in {"README.md"} |-> <<"# ", name>>], <<>>, "Initial commit", "host")

RECURSIVE IsAncestor(_, _)
IsAncestor(a, b) ==
    \/ a = b
    \/ \E i \in 1..Len(b.parents) : IsAncestor(a, b.parents[i])

HostRepo(refs, prot) == [refs |-> refs, prot |-> prot]

\* a directory of the local file system
NewDir == [files |-> EmptyDict, git |-> FALSE, remotes |-> EmptyDict, commits |-> <<>>]
HeadCommit(d) == d.commits[Len(d.commits)]
DirOf(f, path) == IF path \in DOMAIN f THEN f[path] ELSE NewDir

\* Repo.is_dirty() or repo.untracked_files, after "git add ."
IsDirty(d) ==
    IF d.commits = <<>> THEN DOMAIN d.files # {} ELSE d.files # HeadCommit(d).tree

UnrelatedFile == [p \in {"notes.txt"} |-> <<"old">>]
\* a directory that was used before: an unrelated file, and a stale file at a
\* path that a file set names too
PreExistingFiles ==
    [p \in {"notes.txt", "c.txt"} |-> IF p = "c.txt" THEN <<"stale">> ELSE <<"old">>]
LocalCommit(files, parents) == Commit(files, parents, "Initial commit", "local")

\* the states of the world the program can be started in
InitHosts ==
    LET main == HostInitCommit("demo")
        empty == Commit(EmptyDict, <<main>>, "Empty safe branch - all files removed", "api")
    IN  { EmptyDict,
          [n \in {"demo"} |-> HostRepo(EmptyDict, EmptyDict)],
          [n \in {"demo"} |-> HostRepo([b \in {"main"} |-> main], EmptyDict)],
          [n \in {"demo"} |-> HostRepo([b \in Branches |->
                                           IF b = "main" THEN main ELSE empty],
                                       EmptyDict)] }

InitFileSystems ==
    { EmptyDict,
      [p \in {LocalPath} |-> [NewDir EXCEPT !.files = PreExistingFiles]],
      [p \in {LocalPath} |->
          [files |-> UnrelatedFile, git |-> TRUE,
           remotes |-> [r \in {"origin"} |-> CloneUrl("elsewhere")],
           commits |-> <<LocalCommit(UnrelatedFile, <<>>)>>]] }

\* the locals of the frames of one operation
LvInit ==
    [repo_result |-> Unset, push_result |-> Unset, push_status |-> "none",
     ncommits |-> 0, result |-> Unset, results |-> EmptyDict,
     main_branch |-> Unset, empty_commit |-> Unset,
     safe_protection |-> Unset, safe_branch_result |-> Unset]

NoPrev ==
    [op |-> "none", args |-> EmptyDict, ret |-> Unset, ncommits |-> 0,
     created |-> FALSE]

Init ==
    /\ host \in InitHosts
    /\ fs \in InitFileSystems
    /\ pc = "idle"
    /\ op = "none"
    /\ args = EmptyDict
    /\ lv = LvInit
    /\ calls = <<>>
    /\ ret = Unset
    /\ nops = 0
    /\ prev = NoPrev

\* one external call, as recorded in calls
Call(api, kind, branch, arg) == [api |-> api, kind |-> kind, branch |-> branch, arg |-> arg]

\* a public operation is entered
Begin(o, a) ==
    /\ pc = "idle"
    /\ nops < MaxOps
    /\ op' = o
    /\ args' = a
    /\ lv' = LvInit
    /\ calls' = <<>>
    /\ nops' = nops + 1
    /\ prev' = [op |-> op, args |-> args, ret |-> ret, ncommits |-> lv.ncommits,
                created |-> Returned(lv.repo_result) /\ lv.repo_result.success]

\* a public operation returns r (or raises) to its caller
Leave(r) ==
    /\ ret' = r
    /\ pc' = "idle"

---------------------------------------------------------------------------
(* RepositoryCreator.create_repository_with_files, lines 22-40 *)

CustomFiles ==
    << [path |-> "a/b.txt", content |-> <<"x">>],
       [path |-> "c.txt", content |-> <<"y">>] >>

DefaultFiles(repo_name, description) ==
    << [path |-> "README.md",
        content |-> <<"# ", repo_name, "\n\n",
                      IF description = "" THEN "A new repository" ELSE description,
                      "\n">>],
       [path |-> ".gitignore", content |-> <<"# Python\n__pycache__/\n...">>] >>

CallCreateRepositoryWithFiles ==
    \E repo_name \in RepoNames, given \in BOOLEAN :
        /\ Begin("create_repository_with_files",
                 [repo_name |-> repo_name, local_path |-> LocalPath,
                  description |-> "", private |-> FALSE,
                  files |-> IF given THEN CustomFiles
                            ELSE DefaultFiles(repo_name, "")])
        /\ pc' = "create_local_files"
        /\ ret' = Unset
        /\ UNCHANGED <<host, fs>>

\* mutant: the directory is emptied before the files are written
WriteFiles_Clobber(d, files, n) ==
    [d EXCEPT !.files =
        [p \in {files[i].path : i \in 1..n} |->
            files[CHOOSE i \in 1..n : files[i].path = p].content]]

\* the directory after the first n files of the file set are written
WriteFiles(d, files, n) ==
    LET written == {files[i].path : i \in 1..n}
        ContentOf(p) == (CHOOSE i \in 1..n : files[i].path = p)
    IN  [d EXCEPT !.files =
            [p \in (DOMAIN d.files) \cup written |->
                IF p \in written THEN files[ContentOf(p)].content ELSE d.files[p]]]

\* _create_local_files: n = -1 when makedirs(local_path) fails, n < Len(files)
\* when the write of file n + 1 fails, n = Len(files) when all are written
CreateLocalFiles ==
    /\ pc = "create_local_files"
    /\ \E n \in (-1)..Len(args.files) :
        /\ calls' = Append(calls, Call("write_files", "fs", "", None))
        /\ fs' = IF n = -1 THEN fs
                 ELSE Put(fs, args.local_path,
                          WriteFiles(DirOf(fs, args.local_path), args.files, n))
        /\ IF n = Len(args.files)
           THEN /\ pc' = "create_repository"
                /\ UNCHANGED ret
           ELSE Leave(RaisedRec(OSError))
    /\ UNCHANGED <<host, op, args, lv, nops, prev>>

---------------------------------------------------------------------------
(* RepositoryCreator.create_from_template, lines 172-185 *)

\* mutant: the template path is not checked
CallCreateFromTemplate_NoCheck ==
    \E repo_name \in RepoNames, template_path \in Paths :
        /\ Begin("create_from_template",
                 [repo_name |-> repo_name, template_path |-> template_path,
                  description |-> "", private |-> FALSE])
        /\ pc' = "create_repository"
        /\ ret' = Unset
        /\ UNCHANGED <<host, fs>>

CallCreateFromTemplate ==
    \E repo_name \in RepoNames, template_path \in Paths :
        /\ Begin("create_from_template",
                 [repo_name |-> repo_name, template_path |-> template_path,
                  description |-> "", private |-> FALSE])
        /\ IF template_path \notin DOMAIN fs
           THEN Leave(Failure(<<"Template", "path", "does", "not", "exist", ": ",
                                 template_path>>))
           ELSE pc' = "create_repository" /\ ret' = Unset
        /\ UNCHANGED <<host, fs>>

---------------------------------------------------------------------------
(* GitHubClient.create_repository, lines 22-61, and the caller's check of   *)
(* its record (repo_creator.py lines 49-50 and 194-195)                     *)

\* mutant: the host accepts a second repository of the same name
CreateRepoOutcome_Idempotent(o, name) == o

\* what user.create_repo does on the host: o is the environment's outcome
CreateRepoOutcome(o, name) ==
    IF o = "ok" /\ name \in DOMAIN host THEN "rejected" ELSE o

CreateRepoException(o, name) ==
    IF o = "transport" THEN TransportError
    ELSE IF name \in DOMAIN host
         THEN GithubException("422", "name already exists on this account")
         ELSE GithubException("403", "Forbidden")

RepoSuccess(name) ==
    [success |-> TRUE, repo |-> name, clone_url |-> CloneUrl(name),
     ssh_url |-> SshUrl(name), html_url |-> HtmlUrl(name)]

CreateRepository ==
    /\ pc = "create_repository"
    /\ \E o \in Outcomes :
        LET name == args.repo_name
            out == CreateRepoOutcome(o, name)
            e == CreateRepoException(o, name)
        IN  /\ calls' = Append(calls, Call("create_repo", "host", "", None))
            /\ CASE out = "ok" ->
                      /\ host' = Put(host, name,
                                     HostRepo([b \in {"main"} |-> HostInitCommit(name)],
                                              EmptyDict))
                      /\ lv' = [lv EXCEPT !.repo_result = RepoSuccess(name)]
                      /\ pc' = "push_open"
                      /\ UNCHANGED ret
                 [] out = "rejected" ->
                      \* except GithubException: the failure record, which the
                      \* workflow returns as it is
                      /\ lv' = [lv EXCEPT !.repo_result = Failure(StrOf(e))]
                      /\ Leave(Failure(StrOf(e)))
                      /\ UNCHANGED host
                 [] out = "transport" ->
                      \* no handler for any other exception, here or in the workflow
                      /\ Leave(RaisedRec(e))
                      /\ UNCHANGED <<host, lv>>
    /\ UNCHANGED <<fs, op, args, nops, prev>>

---------------------------------------------------------------------------
(* GitHubClient.push_to_repository, lines 63-113 *)

CallPushToRepository ==
    \E repo \in RepoNames \cup {"other"} :
        /\ Begin("push_to_repository",
                 [local_path |-> LocalPath, repo_url |-> CloneUrl(repo),
                  branch |-> "main"])
        /\ pc' = "push_open"
        /\ ret' = Unset
        /\ UNCHANGED <<host, fs>>

PushPath == IF op = "create_from_template" THEN args.template_path ELSE args.local_path
PushUrl == IF op = "push_to_repository" THEN args.repo_url ELSE lv.repo_result.clone_url
VcsOutcomes == {"ok", "error"}

\* mutant: the workflow does not check the push's record
PushReturn_NoAbort(r, l) ==
    /\ lv' = [l EXCEPT !.push_result = r]
    /\ IF op = "push_to_repository"
       THEN Leave(r)
       ELSE pc' = "cbpr_get_repo" /\ UNCHANGED ret

\* push_to_repository returns r: to the caller of the public operation, or
\* to the workflow, which returns a failure as it is (lines 58-59, 203-204)
PushReturn(r, l) ==
    /\ lv' = [l EXCEPT !.push_result = r]
    /\ IF op = "push_to_repository" \/ ~r.success
       THEN Leave(r)
       ELSE pc' = "cbpr_get_repo" /\ UNCHANGED ret

\* except GitCommandError / except Exception: both build the same record
PushFail(e) == PushReturn(Failure(StrOf(e)), lv)

\* lines 72-75: Repo.init(local_path) or Repo(local_path)
PushOpen ==
    /\ pc = "push_open"
    /\ \E o \in VcsOutcomes :
        LET d == DirOf(fs, PushPath)
        IN  /\ calls' = Append(calls, Call(IF d.git THEN "git_open" ELSE "git_init",
                                           "vcs", "", None))
            /\ IF o = "ok"
               THEN /\ fs' = Put(fs, PushPath, [d EXCEPT !.git = TRUE])
                    /\ pc' = "push_remote"
                    /\ UNCHANGED <<lv, ret>>
               ELSE /\ PushFail(GitCommandError("cannot open the repository"))
                    /\ UNCHANGED fs
    /\ UNCHANGED <<host, op, args, nops, prev>>

\* mutant: a remote origin that exists already keeps its URL
PushRemote_KeepExisting ==
    /\ pc = "push_remote"
    /\ \E o \in VcsOutcomes :
        LET d == fs[PushPath]
        IN  /\ calls' = Append(calls, Call("git_remote", "vcs", "", None))
            /\ IF o = "ok"
               THEN /\ fs' = IF "origin" \in DOMAIN d.remotes THEN fs
                             ELSE [fs EXCEPT ![PushPath].remotes =
                                      Put(d.remotes, "origin", PushUrl)]
                    /\ pc' = "push_add"
                    /\ UNCHANGED <<lv, ret>>
               ELSE /\ PushFail(GitCommandError("remote origin"))
                    /\ UNCHANGED fs
    /\ UNCHANGED <<host, op, args, nops, prev>>

\* lines 78-82: set_url on origin, or create_remote when that raised
PushRemote ==
    /\ pc = "push_remote"
    /\ \E o \in VcsOutcomes :
        LET d == fs[PushPath]
        IN  /\ calls' = Append(calls, Call("git_remote", "vcs", "", None))
            /\ IF o = "ok"
               THEN /\ fs' = [fs EXCEPT ![PushPath].remotes = Put(d.remotes, "origin", PushUrl)]
                    /\ pc' = "push_add"
                    /\ UNCHANGED <<lv, ret>>
               ELSE \* set_url raised and create_remote finds origin present, or
                    \* create_remote raised
                    /\ PushFail(GitCommandError("remote origin"))
                    /\ UNCHANGED fs
    /\ UNCHANGED <<host, op, args, nops, prev>>

\* line 85: repo.git.add('.')
PushAdd ==
    /\ pc = "push_add"
    /\ \E o \in VcsOutcomes :
        /\ calls' = Append(calls, Call("git_add", "vcs", "", None))
        /\ IF o = "ok"
           THEN pc' = "push_commit" /\ UNCHANGED <<lv, ret>>
           ELSE PushFail(GitCommandError("add"))
    /\ UNCHANGED <<host, fs, op, args, nops, prev>>

\* mutant: the commit is made whether or not the tree is dirty
PushCommit_Always ==
    /\ pc = "push_commit"
    /\ LET d == fs[PushPath]
       IN  /\ calls' = Append(calls, Call("git_commit", "vcs", "", None))
           /\ fs' = [fs EXCEPT ![PushPath].commits =
                        Append(d.commits,
                               LocalCommit(d.files,
                                           IF d.commits = <<>> THEN <<>>
                                           ELSE <<HeadCommit(d)>>))]
           /\ lv' = [lv EXCEPT !.ncommits = @ + 1]
           /\ pc' = "push_push"
           /\ UNCHANGED ret
    /\ UNCHANGED <<host, op, args, nops, prev>>

\* lines 88-91: commit when the tree is dirty
PushCommit ==
    /\ pc = "push_commit"
    /\ LET d == fs[PushPath]
       IN  IF IsDirty(d)
           THEN \E o \in VcsOutcomes :
                /\ calls' = Append(calls, Call("git_commit", "vcs", "", None))
                /\ IF o = "ok"
                   THEN /\ fs' = [fs EXCEPT ![PushPath].commits =
                                    Append(d.commits,
                                           LocalCommit(d.files,
                                                       IF d.commits = <<>> THEN <<>>
                                                       ELSE <<HeadCommit(d)>>))]
                        /\ lv' = [lv EXCEPT !.ncommits = @ + 1]
                        /\ pc' = "push_push"
                        /\ UNCHANGED ret
                   ELSE /\ PushFail(GitCommandError("commit"))
                        /\ UNCHANGED fs
           ELSE /\ pc' = "push_push"
                /\ UNCHANGED <<fs, lv, ret, calls>>
    /\ UNCHANGED <<host, op, args, nops, prev>>

\* what the remote does with "git push origin main:main" of the local head
PushStatus(d, url) ==
    LET name == RepoOfUrl(url)
    IN  IF d.commits = <<>> \/ name \notin DOMAIN host THEN "fatal"
        ELSE IF "main" \notin DOMAIN host[name].refs
                \/ IsAncestor(host[name].refs["main"], HeadCommit(d))
             THEN "accepted"
             ELSE "rejected"

\* lines 94-100: origin.push raises when git fails outright; a rejected ref is
\* reported in the returned PushInfo flags, which the code does not read
PushPush ==
    /\ pc = "push_push"
    /\ \E o \in VcsOutcomes :
        LET d == fs[PushPath]
            url == d.remotes["origin"]
            name == RepoOfUrl(url)
            status == PushStatus(d, url)
        IN  /\ calls' = Append(calls, Call("git_push", "vcs", "main", None))
            /\ IF o = "ok" /\ status # "fatal"
               THEN /\ host' = IF status = "accepted"
                               THEN [host EXCEPT ![name].refs =
                                        Put(@, "main", HeadCommit(d))]
                               ELSE host
                    /\ PushReturn([success |-> TRUE,
                                   message |-> <<"Successfully pushed to ", PushUrl>>],
                                  [lv EXCEPT !.push_status = status])
               ELSE /\ PushFail(GitCommandError("push failed"))
                    /\ UNCHANGED host
    /\ UNCHANGED <<fs, op, args, nops, prev>>

---------------------------------------------------------------------------
(* The host's answers to the calls of the protection code *)

\* GitHubClient.get_repository, lines 115-120: the repository, None for any
\* GithubException, and any other exception is not caught here
GetRepository(o, name) ==
    IF o = "transport" THEN "raise"
    ELSE IF o = "rejected" \/ name \notin DOMAIN host THEN "none"
    ELSE "repo"

GetRepoCall(o, name) ==
    Call("get_repo", "host", "",
         [status |-> IF o = "transport" THEN "none"
                     ELSE IF name \notin DOMAIN host THEN "404"
                     ELSE IF o = "rejected" THEN "403" ELSE "200"])

\* mutant: the not-found record names its text "message" instead of "error"
NotFound_NoError(name) ==
    [success |-> FALSE, message |-> <<"Repository ", name, " not found">>]

NotFound(name) == Failure(<<"Repository ", name, " not found">>)

\* the status of PUT .../branches/<branch>/protection, "raise" for a transport fault
PutStatus(o, name, branch) ==
    IF o = "transport" THEN "raise"
    ELSE IF name \notin DOMAIN host THEN "404"
    ELSE IF branch \notin DOMAIN host[name].refs THEN "404"
    ELSE IF o = "rejected" THEN "403"
    ELSE "200"

StatusText(status) == IF status = "404" THEN "Branch not found" ELSE "Forbidden"
\* mutant: the failure text of a rejected request leaves the status code out
HttpError_NoStatus(status) == <<"HTTP error", ": ", StatusText(status)>>

HttpError(status) == <<"HTTP ", status, ": ", StatusText(status)>>

HostAfterPut(status, name, branch, payload) ==
    IF status = "200"
    THEN [host EXCEPT ![name].prot = Put(@, branch, payload)]
    ELSE host

---------------------------------------------------------------------------
(* GitHubClient.create_branch_protection_rules, lines 181-269, called by    *)
(* RepositoryCreator._apply_branch_protections, line 91                     *)

\* except Exception (lines 264-269), and the return of the record
CbprReturn(r, l) ==
    /\ lv' = [l EXCEPT !.result = r]
    /\ pc' = "capsb_get_repo"

CbprGetRepo ==
    /\ pc = "cbpr_get_repo"
    /\ \E o \in Outcomes :
        LET got == GetRepository(o, args.repo_name)
        IN  /\ calls' = Append(calls, GetRepoCall(o, args.repo_name))
            /\ CASE got = "repo" -> pc' = "cbpr_put_main" /\ UNCHANGED lv
                 [] got = "none" -> CbprReturn(NotFound(args.repo_name), lv)
                 [] got = "raise" -> CbprReturn(Failure(StrOf(TransportError)), lv)
    /\ UNCHANGED <<host, fs, op, args, ret, nops, prev>>

\* lines 197-227
CbprPutMain ==
    /\ pc = "cbpr_put_main"
    /\ \E o \in Outcomes :
        LET main_rules == get_branch_protection_rules("main")
            main_payload == ProtectionPayload(main_rules)
            status == PutStatus(o, args.repo_name, "main")
        IN  /\ calls' = Append(calls, Call("put_protection", "host", "main", main_payload))
            /\ host' = HostAfterPut(status, args.repo_name, "main", main_payload)
            /\ CASE status = "200" ->
                      /\ lv' = [lv EXCEPT !.results = Put(@, "main",
                                   [success |-> TRUE, message |-> <<"Main branch protected">>])]
                      /\ pc' = "cbpr_put_safe"
                 [] status = "raise" -> CbprReturn(Failure(StrOf(TransportError)), lv)
                 [] OTHER ->
                      /\ lv' = [lv EXCEPT !.results = Put(@, "main", Failure(HttpError(status)))]
                      /\ pc' = "cbpr_put_safe"
    /\ UNCHANGED <<fs, op, args, ret, nops, prev>>

\* lines 229-262
CbprPutSafe ==
    /\ pc = "cbpr_put_safe"
    /\ \E o \in Outcomes :
        LET safe_rules == get_branch_protection_rules("safe")
            safe_payload == ProtectionPayload(safe_rules)
            status == PutStatus(o, args.repo_name, "safe")
            pattern == [success |-> TRUE,
                        message |-> <<SAFE_BRANCH_PATTERN, " pattern configured">>]
            Results(sub) == Put(Put(lv.results, "safe_branch", sub), "safe_pattern", pattern)
            Done(sub) ==
                CbprReturn([success |-> TRUE, results |-> Results(sub),
                            message |-> <<"Branch protection setup completed">>],
                           [lv EXCEPT !.results = Results(sub)])
        IN  /\ calls' = Append(calls, Call("put_protection", "host", "safe", safe_payload))
            /\ host' = HostAfterPut(status, args.repo_name, "safe", safe_payload)
            /\ CASE status = "200" ->
                      Done([success |-> TRUE, message |-> <<"Safe branch protected">>])
                 [] status = "raise" -> CbprReturn(Failure(StrOf(TransportError)), lv)
                 [] OTHER -> Done(Failure(HttpError(status)))
    /\ UNCHANGED <<fs, op, args, ret, nops, prev>>

---------------------------------------------------------------------------
(* RepositoryCreator._create_and_protect_safe_branch, lines 112-170 *)

EmptyCommitMessage == "Empty safe branch - all files removed"

\* the record is returned to _apply_branch_protections (line 94)
CapsbReturn(r, l) ==
    /\ lv' = [l EXCEPT !.safe_branch_result = r]
    /\ pc' = "apb_return"

\* except Exception, lines 165-170
CapsbFail(e) == CapsbReturn(Failure(StrOf(e)), lv)

\* the exception a call on the repository object raises under outcome o
HostException(o, status, text) ==
    IF o = "transport" THEN TransportError ELSE GithubException(status, text)

\* lines 116-121
CapsbGetRepo ==
    /\ pc = "capsb_get_repo"
    /\ \E o \in Outcomes :
        LET got == GetRepository(o, args.repo_name)
        IN  /\ calls' = Append(calls, GetRepoCall(o, args.repo_name))
            /\ CASE got = "repo" -> pc' = "capsb_get_branch" /\ UNCHANGED lv
                 [] got = "none" -> CapsbReturn(NotFound(args.repo_name), lv)
                 [] got = "raise" -> CapsbFail(TransportError)
    /\ UNCHANGED <<host, fs, op, args, ret, nops, prev>>

\* line 125: repo.get_branch("main")
CapsbGetBranch ==
    /\ pc = "capsb_get_branch"
    /\ \E o \in Outcomes :
        LET refs == host[args.repo_name].refs
        IN  /\ calls' = Append(calls, Call("get_branch", "host", "main", None))
            /\ IF o = "ok" /\ "main" \in DOMAIN refs
               THEN /\ lv' = [lv EXCEPT !.main_branch = refs["main"]]
                    /\ pc' = "capsb_create_ref"
               ELSE CapsbFail(IF o = "ok" THEN GithubException("404", "Branch not found")
                              ELSE HostException(o, "403", "Forbidden"))
    /\ UNCHANGED <<host, fs, op, args, ret, nops, prev>>

\* mutant: an existing ref safe is moved to main's commit instead of the
\* creation being refused
CapsbCreateRef_Force ==
    /\ pc = "capsb_create_ref"
    /\ \E o \in Outcomes :
        /\ calls' = Append(calls, Call("create_ref", "host", "safe", None))
        /\ IF o = "ok"
           THEN /\ host' = [host EXCEPT ![args.repo_name].refs =
                                Put(@, "safe", lv.main_branch)]
                /\ pc' = "capsb_create_tree"
                /\ UNCHANGED lv
           ELSE /\ CapsbFail(HostException(o, "403", "Forbidden"))
                /\ UNCHANGED host
    /\ UNCHANGED <<fs, op, args, ret, nops, prev>>

\* lines 126-129: repo.create_git_ref("refs/heads/safe", main's sha)
CapsbCreateRef ==
    /\ pc = "capsb_create_ref"
    /\ \E o \in Outcomes :
        LET refs == host[args.repo_name].refs
        IN  /\ calls' = Append(calls, Call("create_ref", "host", "safe", None))
            /\ IF o = "ok" /\ "safe" \notin DOMAIN refs
               THEN /\ host' = [host EXCEPT ![args.repo_name].refs =
                                    Put(@, "safe", lv.main_branch)]
                    /\ pc' = "capsb_create_tree"
                    /\ UNCHANGED lv
               ELSE /\ CapsbFail(IF o = "ok"
                                 THEN GithubException("422", "Reference already exists")
                                 ELSE HostException(o, "403", "Forbidden"))
                    /\ UNCHANGED host
    /\ UNCHANGED <<fs, op, args, ret, nops, prev>>

\* line 133: repo.create_git_tree([])
CapsbCreateTree ==
    /\ pc = "capsb_create_tree"
    /\ \E o \in Outcomes :
        /\ calls' = Append(calls, Call("create_tree", "host", "", None))
        /\ IF o = "ok"
           THEN pc' = "capsb_create_commit" /\ UNCHANGED lv
           ELSE CapsbFail(HostException(o, "422", "Invalid tree info"))
    /\ UNCHANGED <<host, fs, op, args, ret, nops, prev>>

\* lines 136-140: repo.create_git_commit(message, empty tree, [main's commit])
CapsbCreateCommit ==
    /\ pc = "capsb_create_commit"
    /\ \E o \in Outcomes :
        /\ calls' = Append(calls, Call("create_commit", "host", "", None))
        /\ IF o = "ok"
           THEN /\ lv' = [lv EXCEPT !.empty_commit =
                            Commit(EmptyDict, <<lv.main_branch>>, EmptyCommitMessage, "api")]
                /\ pc' = "capsb_get_ref"
           ELSE CapsbFail(HostException(o, "403", "Forbidden"))
    /\ UNCHANGED <<host, fs, op, args, ret, nops, prev>>

\* line 143: repo.get_git_ref("heads/safe")
CapsbGetRef ==
    /\ pc = "capsb_get_ref"
    /\ \E o \in Outcomes :
        /\ calls' = Append(calls, Call("get_ref", "host", "safe", None))
        /\ IF o = "ok"
           THEN pc' = "capsb_edit_ref" /\ UNCHANGED lv
           ELSE CapsbFail(HostException(o, "403", "Forbidden"))
    /\ UNCHANGED <<host, fs, op, args, ret, nops, prev>>

\* line 144: safe_ref.edit(empty_commit.sha)
CapsbEditRef ==
    /\ pc = "capsb_edit_ref"
    /\ \E o \in Outcomes :
        /\ calls' = Append(calls, Call("update_ref", "host", "safe", None))
        /\ IF o = "ok"
           THEN /\ host' = [host EXCEPT ![args.repo_name].refs =
                                Put(@, "safe", lv.empty_commit)]
                /\ pc' = "cbp_get_repo"
                /\ UNCHANGED lv
           ELSE /\ CapsbFail(HostException(o, "403", "Forbidden"))
                /\ UNCHANGED host
    /\ UNCHANGED <<fs, op, args, ret, nops, prev>>

---------------------------------------------------------------------------
(* GitHubClient.create_branch_protection, lines 122-179: called by          *)
(* _create_and_protect_safe_branch (lines 148-152) and by the protect       *)
(* command (main.py lines 161-168)                                          *)

CallCreateBranchProtection ==
    \E repo_name \in RepoNames, branch \in Branches, type \in BranchTypes :
        /\ Begin("create_branch_protection",
                 [repo_name |-> repo_name, branch |-> branch, type |-> type,
                  protection_rules |-> get_branch_protection_rules(type)])
        /\ pc' = "cbp_get_repo"
        /\ ret' = Unset
        /\ UNCHANGED <<host, fs>>

CbpBranch == IF op = "create_branch_protection" THEN args.branch ELSE "safe"
CbpRules ==
    IF op = "create_branch_protection" THEN args.protection_rules
    ELSE get_branch_protection_rules("safe")

\* create_branch_protection returns r: to the caller of the public operation,
\* or to _create_and_protect_safe_branch (lines 154-163)
CbpReturn(r) ==
    IF op = "create_branch_protection"
    THEN Leave(r) /\ UNCHANGED lv
    ELSE /\ CapsbReturn(IF r.success
                        THEN [success |-> TRUE,
                              message |-> <<"Safe branch created and protected">>]
                        ELSE Failure(<<"Failed to protect safe branch: ">> \o r.error),
                        [lv EXCEPT !.safe_protection = r])
         /\ UNCHANGED ret

\* lines 130-135
CbpGetRepo ==
    /\ pc = "cbp_get_repo"
    /\ \E o \in Outcomes :
        LET got == GetRepository(o, args.repo_name)
        IN  /\ calls' = Append(calls, GetRepoCall(o, args.repo_name))
            /\ CASE got = "repo" -> pc' = "cbp_put" /\ UNCHANGED <<lv, ret>>
                 [] got = "none" -> CbpReturn(NotFound(args.repo_name))
                 [] got = "raise" -> CbpReturn(Failure(StrOf(TransportError)))
    /\ UNCHANGED <<host, fs, op, args, nops, prev>>

\* lines 137-179
CbpPut ==
    /\ pc = "cbp_put"
    /\ \E o \in Outcomes :
        LET payload == ProtectionPayload(CbpRules)
            status == PutStatus(o, args.repo_name, CbpBranch)
        IN  /\ calls' = Append(calls, Call("put_protection", "host", CbpBranch, payload))
            /\ host' = HostAfterPut(status, args.repo_name, CbpBranch, payload)
            /\ CASE status = "200" ->
                      CbpReturn([success |-> TRUE,
                                 message |-> <<"Branch protection applied to ", CbpBranch>>])
                 [] status = "raise" -> CbpReturn(Failure(StrOf(TransportError)))
                 [] OTHER -> CbpReturn(Failure(HttpError(status)))
    /\ UNCHANGED <<fs, op, args, nops, prev>>

---------------------------------------------------------------------------
(* _apply_branch_protections returns the record of                          *)
(* create_branch_protection_rules (lines 96-103), and the workflow returns  *)
(* (repo_creator.py lines 64-72 and 209-217)                                *)

WorkflowSuccess ==
    LET common == [success |-> TRUE,
                   repository |-> lv.repo_result.repo,
                   clone_url |-> lv.repo_result.clone_url,
                   html_url |-> lv.repo_result.html_url,
                   branch_protection |-> lv.result,
                   message |-> <<"Repository '", args.repo_name, "' created">>]
    IN  IF op = "create_from_template"
        THEN Put(common, "template_path", args.template_path)
        ELSE Put(common, "local_path", args.local_path)

\* _apply_branch_protections(repo_name) called on its own, for a repository
\* that exists already (repo_creator.py lines 87-91)
CallApplyBranchProtections ==
    \E repo_name \in RepoNames :
        /\ Begin("_apply_branch_protections", [repo_name |-> repo_name])
        /\ pc' = "cbpr_get_repo"
        /\ ret' = Unset
        /\ UNCHANGED <<host, fs>>

\* mutant: a failed protection record is returned as the workflow's result
ApplyBranchProtectionsReturn_FailFast ==
    /\ pc = "apb_return"
    /\ Leave(IF lv.result.success /\ op # "_apply_branch_protections"
             THEN WorkflowSuccess ELSE lv.result)
    /\ UNCHANGED <<host, fs, op, args, lv, calls, nops, prev>>

ApplyBranchProtectionsReturn ==
    /\ pc = "apb_return"
    /\ Leave(IF op = "_apply_branch_protections" THEN lv.result ELSE WorkflowSuccess)
    /\ UNCHANGED <<host, fs, op, args, lv, calls, nops, prev>>

---------------------------------------------------------------------------
(* main.py: the commands create-branch (lines 187-225) and setup (lines     *)
(* 275-306). A command ends with an exit status and the messages it echoed. *)

\* the attributes class Config defines (config.py lines 11-28)
ConfigAttributes ==
    {"GITHUB_TOKEN", "GITHUB_USERNAME", "DEFAULT_PRIVATE", "DEFAULT_DESCRIPTION",
     "SAFE_BRANCH_PATTERN", "validate"}

\* Config.validate, config.py lines 22-28: ValueError without a token
ConfigValidate(token) == IF token THEN "ok" ELSE "ValueError"

\* the process ends: sys.exit(code), or the command function returns (code 0)
Exit(code, echoed) == [exit |-> code, echo |-> echoed]

CallCreateBranchCommand ==
    \E repo_name \in RepoNames :
        /\ Begin("create_branch", [repo_name |-> repo_name, branch_name |-> "safe"])
        /\ pc' = "cb_get_repo"
        /\ ret' = Unset
        /\ UNCHANGED <<host, fs>>

\* lines 196-200, and the outer except Exception of lines 221-225
CbGetRepo ==
    /\ pc = "cb_get_repo"
    /\ \E o \in Outcomes :
        LET got == GetRepository(o, args.repo_name)
        IN  /\ calls' = Append(calls, GetRepoCall(o, args.repo_name))
            /\ CASE got = "repo" -> pc' = "cb_get_branch" /\ UNCHANGED ret
                 [] got = "none" -> Leave(Exit(1, <<"Repository not found">>))
                 [] got = "raise" -> Leave(Exit(1, <<"Unexpected error">>))
    /\ UNCHANGED <<host, fs, op, args, lv, nops, prev>>

\* line 204: repo.get_branch("main"); except Exception of lines 217-219
CbGetBranch ==
    /\ pc = "cb_get_branch"
    /\ \E o \in Outcomes :
        LET refs == host[args.repo_name].refs
        IN  /\ calls' = Append(calls, Call("get_branch", "host", "main", None))
            /\ IF o = "ok" /\ "main" \in DOMAIN refs
               THEN /\ lv' = [lv EXCEPT !.main_branch = refs["main"]]
                    /\ pc' = "cb_create_ref"
                    /\ UNCHANGED ret
               ELSE /\ Leave(Exit(1, <<"Failed to create branch">>))
                    /\ UNCHANGED lv
    /\ UNCHANGED <<host, fs, op, args, nops, prev>>

\* lines 205-219: repo.create_git_ref, the success messages, and the test of
\* the branch name against Config.get_safe_pattern_core(), an attribute
\* lookup that raises AttributeError inside the try when Config has no such
\* attribute
CbCreateRef ==
    /\ pc = "cb_create_ref"
    /\ \E o \in Outcomes :
        LET refs == host[args.repo_name].refs
            created == <<"Branch created successfully!">>
        IN  /\ calls' = Append(calls, Call("create_ref", "host", args.branch_name, None))
            /\ IF o = "ok" /\ args.branch_name \notin DOMAIN refs
               THEN /\ host' = [host EXCEPT ![args.repo_name].refs =
                                    Put(@, args.branch_name, lv.main_branch)]
                    /\ IF "get_safe_pattern_core" \in ConfigAttributes
                       THEN Leave(Exit(0, created \o <<"Branch matches pattern">>))
                       ELSE Leave(Exit(1, created \o <<"Failed to create branch">>))
               ELSE /\ Leave(Exit(1, <<"Failed to create branch">>))
                    /\ UNCHANGED host
    /\ UNCHANGED <<fs, op, args, lv, nops, prev>>

\* setup, lines 275-306: no path of the command calls sys.exit
CallSetupCommand ==
    \E env_file \in BOOLEAN, example_file \in BOOLEAN, token \in BOOLEAN :
        /\ Begin("setup", [env_file |-> env_file, example_file |-> example_file,
                           token |-> token])
        /\ IF ~env_file /\ ~example_file
           THEN Leave(Exit(0, <<"env.example file not found">>))
           ELSE IF ConfigValidate(token) = "ok"
                THEN Leave(Exit(0, <<"Configuration is valid!">>))
                ELSE Leave(Exit(0, <<"Configuration error">>))
        /\ UNCHANGED <<host, fs>>

---------------------------------------------------------------------------
(* The environment: the user edits a file of the working directory between  *)
(* two operations                                                           *)

EditedFile == [p \in {"notes.txt"} |-> <<"new">>]

EditLocalFile ==
    /\ pc = "idle"
    /\ nops < MaxOps
    /\ LocalPath \in DOMAIN fs
    /\ Get(fs[LocalPath].files, "notes.txt", <<>>) # <<"new">>
    /\ fs' = [fs EXCEPT ![LocalPath].files = Put(@, "notes.txt", <<"new">>)]
    /\ prev' = [op |-> "edit", args |-> EmptyDict, ret |-> Unset, ncommits |-> 0,
                created |-> FALSE]
    /\ op' = "edit"
    /\ UNCHANGED <<host, pc, args, lv, calls, ret, nops>>

---------------------------------------------------------------------------

Next ==
    \/ CallCreateRepositoryWithFiles
    \/ CreateLocalFiles
    \/ CallCreateFromTemplate
    \/ CreateRepository
    \/ CallPushToRepository
    \/ PushOpen
    \/ PushRemote
    \/ PushAdd
    \/ PushCommit
    \/ PushPush
    \/ CbprGetRepo
    \/ CbprPutMain
    \/ CbprPutSafe
    \/ CapsbGetRepo
    \/ CapsbGetBranch
    \/ CapsbCreateRef
    \/ CapsbCreateTree
    \/ CapsbCreateCommit
    \/ CapsbGetRef
    \/ CapsbEditRef
    \/ CallCreateBranchProtection
    \/ CbpGetRepo
    \/ CbpPut
    \/ ApplyBranchProtectionsReturn
    \/ EditLocalFile

Spec == Init /\ [][Next]_vars

\* the commands of main.py: protect, create-branch and setup
NextCli ==
    \/ CallCreateBranchProtection
    \/ CbpGetRepo
    \/ CbpPut
    \/ CallCreateBranchCommand
    \/ CbGetRepo
    \/ CbGetBranch
    \/ CbCreateRef
    \/ CallSetupCommand

SpecCli == Init /\ [][NextCli]_vars

\* the protection sub-workflow run on its own, on repositories that exist
NextRerun ==
    \/ CallApplyBranchProtections
    \/ CbprGetRepo
    \/ CbprPutMain
    \/ CbprPutSafe
    \/ CapsbGetRepo
    \/ CapsbGetBranch
    \/ CapsbCreateRef
    \/ CapsbCreateTree
    \/ CapsbCreateCommit
    \/ CapsbGetRef
    \/ CapsbEditRef
    \/ CbpGetRepo
    \/ CbpPut
    \/ ApplyBranchProtectionsReturn

SpecRerun == Init /\ [][NextRerun]_vars

---------------------------------------------------------------------------
(* Vocabulary of the properties *)

Workflows == {"create_repository_with_files", "create_from_template"}
\* the commands of main.py that are modelled with their exit status
CliCommands == {"create_branch", "setup"}
Finished == pc = "idle" /\ nops > 0 /\ op \notin {"edit"} \cup CliCommands
WorkflowFinished == Finished /\ op \in Workflows

\* the positions in calls of the calls with this api on this branch
CallsOf(api, branch) ==
    {i \in 1..Len(calls) : calls[i].api = api /\ calls[i].branch = branch}
HostCalls == {i \in 1..Len(calls) : calls[i].kind = "host"}
VcsCalls == {i \in 1..Len(calls) : calls[i].kind = "vcs"}

\* the protection sub-workflow has been entered by the running operation
SubWorkflowEntered ==
    op \in Workflows /\ Returned(lv.push_result) /\ lv.push_result.success

ApprovalsOf(rules) == rules.required_pull_request_reviews.required_approving_review_count

---------------------------------------------------------------------------
(* C1 *)

\* C1 (as stated): the rule set resolved for "safe" requires at least as many
\* approvals as the one for "main" and at least 2, and enforces for admins,
\* while the rule set for "main" does not enforce for admins.
C1_Strictness ==
    (op = "create_branch_protection" /\ args.type \in {"main", "safe"}) =>
        IF args.type = "safe"
        THEN /\ ApprovalsOf(args.protection_rules)
                    >= ApprovalsOf(get_branch_protection_rules("main"))
             /\ ApprovalsOf(args.protection_rules) >= 2
             /\ args.protection_rules.enforce_admins = TRUE
        ELSE args.protection_rules.enforce_admins = FALSE

\* C1 (amended): the rule set resolved for "safe" is the same as the one for
\* "main": it requires as many approvals (1, so at least as many), and
\* neither rule set enforces for admins.
C1_SafeSameAsMain ==
    (op = "create_branch_protection" /\ args.type \in {"main", "safe"}) =>
        /\ args.protection_rules = MainRules
        /\ ApprovalsOf(args.protection_rules)
              >= ApprovalsOf(get_branch_protection_rules("main"))
        /\ ApprovalsOf(args.protection_rules) = 1
        /\ args.protection_rules.enforce_admins = FALSE

C1_Witness ==
    /\ op = "create_branch_protection"
    /\ args.type = "safe"
    /\ pc = "idle"
    /\ Returned(ret) /\ ret.success

---------------------------------------------------------------------------
(* C2 *)

\* C2: in a run of the protection sub-workflow no protection request for
\* branch safe is sent before the create-ref step for safe was attempted,
\* the main protection request comes before the create-ref step, and each of
\* the steps (protect main, create ref, move ref to the empty commit, protect
\* safe) is performed at most once.
C2_StepOrder ==
    op \in Workflows =>
        /\ \A i \in CallsOf("put_protection", "safe") :
              \E j \in CallsOf("create_ref", "safe") : j < i
        /\ \A j \in CallsOf("create_ref", "safe") :
              \E i \in CallsOf("put_protection", "main") : i < j
        /\ \A j \in CallsOf("update_ref", "safe") :
              \E i \in CallsOf("create_ref", "safe") : i < j
        /\ Cardinality(CallsOf("put_protection", "main")) <= 1
        /\ Cardinality(CallsOf("create_ref", "safe")) <= 1
        /\ Cardinality(CallsOf("update_ref", "safe")) <= 1
        /\ Cardinality(CallsOf("put_protection", "safe")) <= 1

---------------------------------------------------------------------------
(* C3 *)

\* the host accepted the main protection request of this run
MainStepSucceeded ==
    "main" \in DOMAIN lv.results /\ lv.results["main"].success
\* the host accepted the protection request sent for safe after it was emptied
SafeStepSucceeded ==
    Returned(lv.safe_protection) /\ lv.safe_protection.success

\* C3: the record attached as branch_protection has success = true if and
\* only if both the main protection step and the safe protection step
\* succeeded.
C3_AggregateSuccess ==
    (WorkflowFinished /\ Returned(ret) /\ "branch_protection" \in DOMAIN ret) =>
        (ret.branch_protection.success <=> (MainStepSucceeded /\ SafeStepSucceeded))

---------------------------------------------------------------------------
(* C4 *)

\* C4: when the push is rejected it is retried exactly once as a forced
\* push, and publish returns success = true only when a push was accepted by
\* the remote.
C4_ForcedRetry ==
    (pc = "idle" /\ Returned(lv.push_result)) =>
        /\ lv.push_status = "rejected" =>
              Cardinality(CallsOf("git_push_force", "main")) = 1
        /\ lv.push_result.success => lv.push_status = "accepted"

---------------------------------------------------------------------------
(* C5 *)

\* C5: no public operation ends by raising: each returns a record with a
\* success field, whatever step failed.
C5_NoRaise ==
    Finished => Returned(ret)

---------------------------------------------------------------------------
(* C6 *)

\* the records returned so far by the functions of the running operation
ReturnedRecords ==
    LET named == {lv.repo_result, lv.push_result, lv.result, lv.safe_protection,
                  lv.safe_branch_result, ret}
        inner == {lv.results[k] : k \in DOMAIN lv.results}
        attached == {r.branch_protection :
                        r \in {x \in named : "branch_protection" \in DOMAIN x}}
    IN  {r \in named \cup inner \cup attached : Returned(r)}

\* C6: in every record returned, the key error is present if and only if
\* success = false, and a failure record carries no payload field.
C6_RecordShape ==
    \A r \in ReturnedRecords :
        /\ ("error" \in DOMAIN r) <=> (r.success = FALSE)
        /\ r.success = FALSE => DOMAIN r = {"success", "error"}

C6_Witness ==
    /\ WorkflowFinished
    /\ Returned(ret) /\ ret.success
    /\ ret.branch_protection.success
    /\ ~ret.branch_protection.results["safe_branch"].success
    /\ Returned(lv.safe_branch_result) /\ ~lv.safe_branch_result.success

---------------------------------------------------------------------------
(* C7 *)

\* C7: in the two provisioning workflows, when create_repository fails its
\* record is returned unchanged and no other external call follows (none
\* follows either when it raises); when it succeeds and the push fails, the
\* push's record is returned unchanged, has no branch_protection, and no
\* call is made on the host after the creation.
C7_FirstFailureAborts ==
    (op \in Workflows /\ CallsOf("create_repo", "") # {}) =>
        /\ (Returned(lv.repo_result) /\ ~lv.repo_result.success) =>
              /\ pc = "idle"
              /\ ret = lv.repo_result
        /\ ~(Returned(lv.repo_result) /\ lv.repo_result.success) =>
              /\ pc = "idle"
              /\ calls[Len(calls)].api = "create_repo"
              /\ VcsCalls = {}
              /\ Cardinality(HostCalls) = 1
        /\ (Returned(lv.repo_result) /\ lv.repo_result.success
                /\ Returned(lv.push_result) /\ ~lv.push_result.success) =>
              /\ pc = "idle"
              /\ ret = lv.push_result
              /\ "branch_protection" \notin DOMAIN ret
              /\ Cardinality(HostCalls) = 1

C7_Witness ==
    /\ WorkflowFinished
    /\ Returned(lv.repo_result) /\ lv.repo_result.success
    /\ Returned(lv.push_result) /\ ~lv.push_result.success
    /\ args.repo_name \in DOMAIN host

---------------------------------------------------------------------------
(* C8 *)

\* C8: whenever create_repository and the push both succeeded, the workflow
\* returns success = true with branch_protection holding the record of the
\* protection sub-workflow, whatever that record's success is.
C8_ProtectionNotFatal ==
    (WorkflowFinished /\ Returned(lv.repo_result) /\ lv.repo_result.success
        /\ Returned(lv.push_result) /\ lv.push_result.success) =>
        /\ Returned(ret)
        /\ ret.success
        /\ "branch_protection" \in DOMAIN ret
        /\ Returned(ret.branch_protection)
        /\ ret.branch_protection = lv.result

C8_Witness ==
    /\ WorkflowFinished
    /\ Returned(ret) /\ ret.success
    /\ ~ret.branch_protection.success
    /\ Returned(lv.safe_branch_result) /\ ~lv.safe_branch_result.success

---------------------------------------------------------------------------
(* C9 *)

\* C9: create_from_template with a template path that does not exist
\* returns success = false with an error containing "does not exist" and
\* makes no call to the host or to the version-control tool.
C9_TemplateMissing ==
    (Finished /\ op = "create_from_template" /\ args.template_path \notin DOMAIN fs) =>
        /\ Returned(ret)
        /\ ~ret.success
        /\ Contains(ret.error, <<"does", "not", "exist">>)
        /\ calls = <<>>

C9_Witness ==
    /\ Finished
    /\ op = "create_from_template"
    /\ args.template_path = MissingPath
    /\ args.repo_name \notin DOMAIN host

---------------------------------------------------------------------------
(* C10 *)

\* two calls of push_to_repository in a row, the directory not touched between
TwoPushesInARow ==
    Finished /\ op = "push_to_repository" /\ prev.op = "push_to_repository"

---------------------------------------------------------------------------
\* the operation before this one was a workflow that created its repository
\* and then failed to publish
PartialFailureBefore ==
    /\ prev.op \in Workflows
    /\ prev.created
    /\ Returned(prev.ret) /\ ~prev.ret.success

\* C11: no rollback and no idempotent creation. A workflow that created the
\* repository and then failed to publish leaves the repository on the host
\* when it returns, and the workflow that follows it with the same name gets
\* the host's duplicate-name rejection (422) from create_repo, which it
\* returns as its own failure, and makes no version-control call and no other
\* host call.
C11_NoRollback ==
    /\ (WorkflowFinished /\ Returned(lv.repo_result) /\ lv.repo_result.success
            /\ Returned(ret) /\ ~ret.success)
          => /\ args.repo_name \in DOMAIN host
             /\ "main" \in DOMAIN host[args.repo_name].refs
    /\ (op \in Workflows /\ PartialFailureBefore
            /\ prev.args.repo_name = args.repo_name)
          => /\ args.repo_name \in DOMAIN host
             /\ VcsCalls = {}
             /\ \A i \in HostCalls : calls[i].api = "create_repo"
             /\ lv.result = Unset
             /\ Returned(lv.repo_result)
                   => /\ lv.repo_result =
                            Failure(<<"422", "name already exists on this account">>)
                      /\ pc = "idle" /\ ret = lv.repo_result
             /\ Finished => ~(Returned(ret) /\ ret.success)

\* the second workflow has been rejected by the host for the duplicate name
C11_Witness ==
    /\ WorkflowFinished /\ PartialFailureBefore
    /\ prev.args.repo_name = args.repo_name
    /\ Returned(ret) /\ ret.error[1] = "422"
    /\ CallsOf("create_repo", "") # {}
---------------------------------------------------------------------------
\* what the lookup of create_branch_protection was answered by the host
CbpLookup == IF calls = <<>> THEN "none" ELSE calls[1].arg.status

CbpFinished == Finished /\ op = "create_branch_protection"

\* C12: create_branch_protection whose lookup finds no repository returns the
\* repository-not-found failure and sends no protection request; one whose
\* lookup finds the repository sends exactly one protection request, for the
\* branch it was given, and when the host rejects that request (the branch is
\* missing, say) the record has success = false and its error carries the
\* host's status code.
\* A lookup that fails for another reason sends no request and returns a failure.
C12_OneRequest ==
    CbpFinished =>
        /\ Returned(ret)
        /\ CbpLookup = "404"
              => /\ args.repo_name \notin DOMAIN host
                 /\ ret = NotFound(args.repo_name)
                 /\ CallsOf("put_protection", "main") = {}
                 /\ CallsOf("put_protection", "safe") = {}
        /\ CbpLookup # "200"
              => /\ ~ret.success
                 /\ \A i \in 1..Len(calls) : calls[i].api # "put_protection"
        /\ CbpLookup = "200"
              => /\ Len(calls) = 2
                 /\ CallsOf("put_protection", args.branch) = {2}
                 /\ \/ ret.success
                       /\ args.branch \in DOMAIN host[args.repo_name].prot
                    \/ ~ret.success /\ ret.error = StrOf(TransportError)
                    \/ /\ ~ret.success
                       /\ ret.error[1] = "HTTP "
                       /\ ret.error[2] \in {"403", "404"}
                 /\ args.branch \notin DOMAIN host[args.repo_name].refs
                       => /\ ~ret.success
                          /\ ret.error # StrOf(TransportError) => ret.error[2] = "404"

\* protection of main was asked for a repository that has no branch main, and
\* the host's 404 came back in the record
C12_Witness ==
    /\ CbpFinished /\ CbpLookup = "200"
    /\ args.branch = "main"
    /\ "main" \notin DOMAIN host[args.repo_name].refs
    /\ ret = Failure(HttpError("404"))
---------------------------------------------------------------------------
\* C13: get_repository answers "absent" only when the host reports not-found,
\* so no record of any operation says "Repository <name> not found" for a
\* repository that exists on the host.
C13_AbsentOnlyOnNotFound ==
    \A r \in ReturnedRecords : \A n \in RepoNames :
        r = NotFound(n) => n \notin DOMAIN host
---------------------------------------------------------------------------
\* the exit status of the commands create, from-template and protect, which
\* wrap an operation of the library: sys.exit(1) when the record has
\* success False and when an exception reaches the command
CommandExit(r) == IF Returned(r) /\ r.success THEN 0 ELSE 1

\* the exit status of the command that ran the last operation
ExitStatus == IF op \in CliCommands THEN ret.exit ELSE CommandExit(ret)

\* C14: every command exits with status 0 exactly when its operation
\* succeeded and with 1 on any failure: create-branch exits 0 whenever the
\* branch ref was created on the host, and setup exits 1 when the
\* configuration is missing or invalid.
C14_ExitStatus ==
    (pc = "idle" /\ nops > 0) =>
        /\ op \in Workflows \cup {"create_branch_protection"}
              => (ExitStatus = 0 <=> Returned(ret) /\ ret.success)
        /\ op = "create_branch"
              => /\ ExitStatus \in {0, 1}
                 /\ ExitStatus = 0 <=>
                        /\ calls # <<>>
                        /\ calls[Len(calls)].api = "create_ref"
                        /\ ret.echo[1] = "Branch created successfully!"
                        /\ args.branch_name \in DOMAIN host[args.repo_name].refs
        /\ op = "setup"
              => /\ ExitStatus \in {0, 1}
                 /\ ExitStatus = 0 <=>
                        /\ args.env_file \/ args.example_file
                        /\ ConfigValidate(args.token) = "ok"

---------------------------------------------------------------------------
\* C15: get_branch_protection_rules of a classification other than main and
\* safe is the empty rule set, and no protection request is ever sent on
\* behalf of an empty rule set.
C15_EmptyRulesNotSent ==
    /\ \A t \in BranchTypes \ {"main", "safe"} :
           get_branch_protection_rules(t) = EmptyDict
    /\ (op = "create_branch_protection" /\ DOMAIN args.protection_rules = {})
          => \A i \in 1..Len(calls) : calls[i].api # "put_protection"
---------------------------------------------------------------------------
\* C16: when create_repository_with_files called without a file set returns
\* success = true, the repository exists on the host and the head of its main
\* is the commit pushed from the local directory, whose tree holds the default
\* README.md (naming the repository) and .gitignore: success is never returned
\* while the remote main lacks the local commit.
C16_SuccessMeansPublished ==
    (WorkflowFinished /\ op = "create_repository_with_files"
        /\ args.files = DefaultFiles(args.repo_name, args.description)
        /\ Returned(ret) /\ ret.success)
    => /\ args.repo_name \in DOMAIN host
       /\ "main" \in DOMAIN host[args.repo_name].refs
       /\ LET head == host[args.repo_name].refs["main"]
              local == fs[args.local_path]
          IN  /\ local.commits # <<>>
              /\ head = HeadCommit(local)
              /\ {"README.md", ".gitignore"} \subseteq DOMAIN head.tree
              /\ \E i \in 1..Len(head.tree["README.md"]) :
                     head.tree["README.md"][i] = args.repo_name
---------------------------------------------------------------------------
\* create_git_ref of this run created the branch safe: the calls that follow
\* it are only made then
SafeCreatedByRun == CallsOf("create_tree", "") # {}

\* C17: whenever a run of the protection sub-workflow ends with a branch safe
\* that the run created, the head of safe is a commit with an empty tree whose
\* parent is the commit of main: safe is never left at a commit that carries
\* the files of main, whichever later step fails.
C17_SafeIsEmpty ==
    (WorkflowFinished /\ SafeCreatedByRun)
    => LET refs == host[args.repo_name].refs
       IN  /\ "safe" \in DOMAIN refs
           /\ refs["safe"].tree = EmptyDict
           /\ refs["safe"].parents = <<refs["main"]>>
---------------------------------------------------------------------------
\* C18: a step of _create_local_files that completes leaves every path of
\* the file set with exactly the given content, a file that was at that path
\* before being overwritten, and leaves every file of the directory that the
\* file set does not name as it was.
C18_MaterializeFrame ==
    [][ (pc = "create_local_files" /\ pc' = "create_repository")
        => LET before == DirOf(fs, args.local_path).files
               after == fs'[args.local_path].files
               paths == {args.files[i].path : i \in 1..Len(args.files)}
           IN  /\ DOMAIN after = (DOMAIN before) \cup paths
               /\ \A i \in 1..Len(args.files) :
                      after[args.files[i].path] = args.files[i].content
               /\ \A q \in (DOMAIN before) \ paths : after[q] = before[q] ]_vars

\* the custom file set has been written into the directory that held the
\* unrelated notes.txt and a stale c.txt
C18_Witness ==
    /\ nops = 1 /\ op = "create_repository_with_files"
    /\ pc = "create_repository"
    /\ args.files = CustomFiles
    /\ fs[args.local_path].files =
          [p \in {"notes.txt", "c.txt", "a/b.txt"} |->
              IF p = "notes.txt" THEN <<"old">>
              ELSE IF p = "c.txt" THEN <<"y">> ELSE <<"x">>]
---------------------------------------------------------------------------
\* C19: when the protection sub-workflow runs on a repository whose branch
\* safe exists already, create_git_ref fails and nothing is harmed: the ref
\* safe is not moved and no commit is attached to it (the host is unchanged
\* and the sub-workflow goes straight to its return), and the record the
\* sub-workflow returns is the one it had before, not turned into a failure.
C19_RerunHarmless ==
    [][ /\ (pc = "capsb_create_ref" /\ "safe" \in DOMAIN host[args.repo_name].refs)
           => /\ host' = host
              /\ pc' = "apb_return"
              /\ lv'.empty_commit = Unset
              /\ ~lv'.safe_branch_result.success
              /\ lv'.result = lv.result
        /\ (pc = "apb_return" /\ op = "_apply_branch_protections")
           => /\ host' = host
              /\ ret' = lv.result ]_vars

\* a run on a repository with main and an emptied safe has returned success
\* after its create_git_ref was refused
C19_Witness ==
    /\ pc = "idle" /\ op = "_apply_branch_protections"
    /\ calls # <<>> /\ calls[Len(calls)].api = "create_ref"
    /\ lv.safe_branch_result =
          Failure(StrOf(GithubException("422", "Reference already exists")))
    /\ ret.success
    /\ host[args.repo_name].refs["safe"].tree = EmptyDict
    /\ host[args.repo_name].refs["safe"].parents = <<host[args.repo_name].refs["main"]>>
---------------------------------------------------------------------------
\* the running or last operation publishes, and its push_to_repository got
\* past the configuration of the remote
PastRemoteStep ==
    /\ op \in Workflows \cup {"push_to_repository"}
    /\ \/ pc \in {"push_add", "push_commit", "push_push"}
       \/ CallsOf("git_add", "") # {}

\* C20: once push_to_repository is past its remote-configuration step, the
\* working copy has a remote origin whose URL is the repo_url it was given,
\* whether origin was absent before or pointed elsewhere, and so after any
\* sequence of calls with different URLs.
C20_OriginIsRemoteUrl ==
    PastRemoteStep
    => /\ PushPath \in DOMAIN fs
       /\ "origin" \in DOMAIN fs[PushPath].remotes
       /\ fs[PushPath].remotes["origin"] = PushUrl

\* two calls in a row with different URLs, the first one successful: origin
\* is at the URL of the second
C20_Witness ==
    /\ pc = "idle" /\ op = "push_to_repository" /\ PastRemoteStep
    /\ prev.op = "push_to_repository"
    /\ prev.ret.success
    /\ prev.args.repo_url # args.repo_url
    /\ fs[PushPath].remotes["origin"] = args.repo_url
---------------------------------------------------------------------------
\* C21: the per-branch results of the branch_protection record a workflow
\* returns agree with the host when the workflow returns: the record says
\* safe is protected if and only if the branch safe has protection rules on
\* the host then, and likewise for main.
C21_ResultsAgreeWithHost ==
    (WorkflowFinished /\ Returned(ret) /\ ret.success
        /\ "results" \in DOMAIN ret.branch_protection)
    => LET results == ret.branch_protection.results
           prot == host[args.repo_name].prot
       IN  /\ results["main"].success <=> "main" \in DOMAIN prot
           /\ results["safe_branch"].success <=> "safe" \in DOMAIN prot
====
